---- MODULE Spec2Model ----
(***************************************************************************)
(* The upsd input plugin (plugins/inputs/upsd/upsd.go): one collector      *)
(* instance u polled by Gather.  A poll cycle connects to the NUT server,  *)
(* optionally authenticates, lists the devices, and emits one metric       *)
(* record per key of the map built from the device list.  Spec polls       *)
(* sequentially, SpecConc lets two polls overlap, SpecDevice polls a       *)
(* server with a single device taken from a larger set of values.          *)
(*                                                                         *)
(* Go strings that the code inspects are sequences of one-character        *)
(* strings; map keys (variable, tag and field names) are TLA+ strings.     *)
(* An int64 is its two's complement bit pattern: eight bytes, least        *)
(* significant first.                                                      *)
(***************************************************************************)
EXTENDS Integers, Sequences, FiniteSets, TLC

\* Bounds of the model.
MaxDevices == 2
MaxCycles == 2
MaxPieces == 3

\* ------------------------------------------------------------------------
\* Dynamically typed values (interface{}) carried by nut.Variable.Value.

Nil == [t |-> "nil"]
Str(s) == [t |-> "string", v |-> s]
Int64(b) == [t |-> "int64", v |-> b]
\* A float64 is kept as its shortest decimal text, which is what %v prints.
Float64(text) == [t |-> "float64", v |-> text]

\* ------------------------------------------------------------------------
\* int64 arithmetic on byte sequences.

Int64Bytes == 8
WideBytes == 2 * Int64Bytes
NanosPerSecond == 1000000000

Zeros(k) == [i \in 1..k |-> 0]

\* The k <= 4 low bytes of a natural number below 2^31.
Bytes(n, k) == [i \in 1..k |-> (n \div (256 ^ (i - 1))) % 256]

\* The int64 of a natural number below 2^31, and of hi * 2^32 + lo.
Int64Of(n) == Bytes(n, 4) \o Zeros(Int64Bytes - 4)
Int64HiLo(hi, lo) == Bytes(lo, 4) \o Bytes(hi, 4)
MinusOne(k) == [i \in 1..k |-> 255]

IsNegative(a) == a[Len(a)] >= 128
IsZero(a) == \A i \in 1..Len(a) : a[i] = 0

\* Sign extension of a two's complement number to k bytes.
SignExtend(a, k) ==
    a \o [i \in 1..(k - Len(a)) |-> IF IsNegative(a) THEN 255 ELSE 0]

RECURSIVE ConvSum(_, _, _, _)
ConvSum(a, b, k, i) ==
    IF i = 0 THEN 0 ELSE a[i] * b[k + 1 - i] + ConvSum(a, b, k, i - 1)

RECURSIVE MulFrom(_, _, _, _)
MulFrom(a, b, k, carry) ==
    IF k > Len(a) THEN <<>>
    ELSE LET t == ConvSum(a, b, k, k) + carry
         IN  <<t % 256>> \o MulFrom(a, b, k + 1, t \div 256)

\* a * b of two numbers of the same width, wrapped to that width, as Go's
\* integer multiplication wraps.
MulWrap(a, b) == MulFrom(a, b, 1, 0)

Negate(a) == MulWrap(a, MinusOne(Len(a)))

\* Division of the unsigned number a[1..i] by ten, with remainder.
RECURSIVE DivTen(_, _, _)
DivTen(a, i, rem) ==
    IF i = 0 THEN [q |-> <<>>, r |-> rem]
    ELSE LET cur == rem * 256 + a[i]
             rest == DivTen(a, i - 1, cur % 10)
         IN  [q |-> Append(rest.q, cur \div 10), r |-> rest.r]

Digit == <<"0", "1", "2", "3", "4", "5", "6", "7", "8", "9">>

RECURSIVE DecimalOf(_)
DecimalOf(a) ==
    IF IsZero(a) THEN <<>>
    ELSE LET d == DivTen(a, Len(a), 0)
         IN  Append(DecimalOf(d.q), Digit[d.r + 1])

\* strconv's decimal form of an int64.
FormatInt(a) ==
    IF IsZero(a) THEN <<"0">>
    ELSE IF IsNegative(a) THEN <<"-">> \o DecimalOf(Negate(a))
    ELSE DecimalOf(a)

\* ------------------------------------------------------------------------
\* Strings.

\* fmt.Sprintf("%v", x)
Sprintf(x) ==
    CASE x.t = "nil" -> <<"<", "n", "i", "l", ">">>
      [] x.t = "string" -> x.v
      [] x.t = "int64" -> FormatInt(x.v)
      [] x.t = "float64" -> x.v

\* unicode.IsSpace on the characters of the model's alphabet.
IsSpace(c) == c \in {" ", "\t", "\n", "\f", "\r"}

RECURSIVE FieldsFrom(_, _, _)
FieldsFrom(s, i, cur) ==
    IF i > Len(s) THEN (IF cur = <<>> THEN <<>> ELSE <<cur>>)
    ELSE IF IsSpace(s[i])
         THEN (IF cur = <<>> THEN <<>> ELSE <<cur>>) \o FieldsFrom(s, i + 1, <<>>)
         ELSE FieldsFrom(s, i + 1, Append(cur, s[i]))

\* strings.Fields
Fields(s) == FieldsFrom(s, 1, <<>>)

\* choice.Contains(choice, choices)
Contains(choice, choices) == \E i \in 1..Len(choices) : choices[i] = choice

True == <<"t", "r", "u", "e">>

\* ------------------------------------------------------------------------
\* gatherUps and mapStatus.

NoMetrics == [k \in {} |-> Nil]

\* The metrics map of gatherUps: a later variable of the same name overwrites.
RECURSIVE MetricsOf(_)
MetricsOf(variables) ==
    IF variables = <<>> THEN NoMetrics
    ELSE LET n == Len(variables)
         IN  (variables[n].Name :> variables[n].Value)
                 @@ MetricsOf(SubSeq(variables, 1, n - 1))

\* metrics[key]: the nil interface when the key is absent.
Lookup(metrics, key) == IF key \in DOMAIN metrics THEN metrics[key] ELSE Nil

\* The eight tests of mapStatus, in source order.
StatusTable ==
    << [token |-> <<"C", "A", "L">>,           bit |-> 0, tag |-> "status_CAL"],
       [token |-> <<"T", "R", "I", "M">>,      bit |-> 1, tag |-> "status_TRIM"],
       [token |-> <<"B", "O", "O", "S", "T">>, bit |-> 2, tag |-> "status_BOOST"],
       [token |-> <<"O", "L">>,                bit |-> 3, tag |-> "status_OL"],
       [token |-> <<"O", "B">>,                bit |-> 4, tag |-> "status_OB"],
       [token |-> <<"O", "V", "E", "R">>,      bit |-> 5, tag |-> "status_OVER"],
       [token |-> <<"L", "B">>,                bit |-> 6, tag |-> "status_LB"],
       [token |-> <<"R", "B">>,                bit |-> 7, tag |-> "status_RB"] >>

\* The table with the bits of OL and OB exchanged.
StatusTableSwapped ==
    [i \in 1..Len(StatusTable) |->
        IF StatusTable[i].bit = 3 THEN [StatusTable[i] EXCEPT !.bit = 4]
        ELSE IF StatusTable[i].bit = 4 THEN [StatusTable[i] EXCEPT !.bit = 3]
        ELSE StatusTable[i]]

\* status |= 1 << bit, for a bit not yet set.
RECURSIVE MapStatusFrom(_, _, _, _)
MapStatusFrom(table, i, statuses, acc) ==
    IF i > Len(table) THEN acc
    ELSE MapStatusFrom(table, i + 1, statuses,
            IF Contains(table[i].token, statuses)
            THEN [status |-> acc.status + 2 ^ table[i].bit,
                  tags |-> (table[i].tag :> True) @@ acc.tags]
            ELSE acc)

MapStatusWith(table, metrics, tags) ==
    MapStatusFrom(table, 1, Fields(Sprintf(Lookup(metrics, "ups.status"))),
                  [status |-> 0, tags |-> tags])

mapStatusSwapped(metrics, tags) == MapStatusWith(StatusTableSwapped, metrics, tags)

\* The returned mask and the tags map after the call.
mapStatus(metrics, tags) == MapStatusWith(StatusTable, metrics, tags)

\* metrics["battery.runtime"].(int64): the value and ok, the zero value when
\* the assertion fails.
AssertInt64(x) ==
    IF x.t = "int64" THEN [value |-> x.v, ok |-> TRUE]
    ELSE [value |-> Zeros(Int64Bytes), ok |-> FALSE]

TimeLeftUnscaled(timeLeftS) == timeLeftS

\* timeLeftS * 1_000_000_000
TimeLeftNs(timeLeftS) == MulWrap(timeLeftS, Int64Of(NanosPerSecond))

\* The fields copied from the metrics map unchanged: field name, variable name.
PassThrough ==
    << <<"ups.status", "ups.status">>,
       <<"input_voltage", "input.voltage">>,
       <<"load_percent", "ups.load">>,
       <<"battery_charge_percent", "battery.charge">>,
       <<"output_voltage", "output.voltage">>,
       <<"internal_temp", "ups.temperature">>,
       <<"battery_voltage", "battery.voltage">>,
       <<"input_frequency", "input.frequency">>,
       <<"nominal_input_voltage", "input.voltage.nominal">>,
       <<"nominal_battery_voltage", "battery.voltage.nominal">>,
       <<"nominal_power", "ups.realpower.nominal">>,
       <<"firmware", "ups.firmware">>,
       <<"battery_date", "battery.mfr.date">> >>

PassThroughFields(metrics) ==
    [f \in {PassThrough[i][1] : i \in 1..Len(PassThrough)} |->
        LET i == CHOOSE j \in 1..Len(PassThrough) : PassThrough[j][1] = f
        IN  Lookup(metrics, PassThrough[i][2])]

\* gatherUps, were it to drop time_left_ns once the warning has been issued.
gatherUpsLatched(name, variables, issued) ==
    LET metrics == MetricsOf(variables)
        tags == ("serial" :> Sprintf(Lookup(metrics, "device.serial")))
                    @@ ("ups_name" :> name)
                    @@ ("model" :> Sprintf(Lookup(metrics, "device.model")))
        ms == mapStatus(metrics, tags)
        timeLeftS == AssertInt64(Lookup(metrics, "battery.runtime")).value
    IN  [measurement |-> "upsd",
         fields |-> ("status_flags" :> ms.status)
                        @@ (IF issued THEN NoMetrics
                            ELSE ("time_left_ns" :> Int64(TimeLeftNs(timeLeftS))))
                        @@ PassThroughFields(metrics),
         tags |-> ms.tags]

\* The record gatherUps hands to acc.AddFields for one device; issued is
\* u.batteryRuntimeTypeWarningIssued, which gatherUps can read and the record
\* does not use.
gatherUps(name, variables, issued) ==
    LET metrics == MetricsOf(variables)
        tags == ("serial" :> Sprintf(Lookup(metrics, "device.serial")))
                    @@ ("ups_name" :> name)
                    @@ ("model" :> Sprintf(Lookup(metrics, "device.model")))
        ms == mapStatus(metrics, tags)
        timeLeftS == AssertInt64(Lookup(metrics, "battery.runtime")).value
    IN  [measurement |-> "upsd",
         fields |-> ("status_flags" :> ms.status)
                        @@ ("time_left_ns" :> Int64(TimeLeftNs(timeLeftS)))
                        @@ PassThroughFields(metrics),
         tags |-> ms.tags]

\* Whether the battery.runtime of a device is an int64.
RuntimeOk(variables) ==
    AssertInt64(Lookup(MetricsOf(variables), "battery.runtime")).ok

WarnAlways(ok, issued) == ~ok

\* !ok && !u.batteryRuntimeTypeWarningIssued
NeedsWarning(ok, issued) == ~ok /\ ~issued

\* ------------------------------------------------------------------------
\* fetchVariables.

EitherCredential(c) == c.Username # <<>> \/ c.Password # <<>>

\* u.Username != "" && u.Password != ""
HasCredentials(c) == c.Username # <<>> /\ c.Password # <<>>

WrapErrorShifted(phase) ==
    CASE phase = "Connect" -> "connect"
      [] phase = "Authenticate" -> "connect"
      [] phase = "GetUPSList" -> "auth"

\* The annotation fmt.Errorf puts before the wrapped error.
WrapError(phase) ==
    CASE phase = "Connect" -> "connect"
      [] phase = "Authenticate" -> "auth"
      [] phase = "GetUPSList" -> "getupslist"

NoResult == [n \in {} |-> <<>>]

RECURSIVE BuildResultFirst(_)
BuildResultFirst(list) ==
    IF list = <<>> THEN NoResult
    ELSE (list[1].Name :> list[1].Variables) @@ BuildResultFirst(Tail(list))

\* result[ups.Name] = ups.Variables over the list: a later entry of the same
\* name overwrites.
RECURSIVE BuildResult(_)
BuildResult(list) ==
    IF list = <<>> THEN NoResult
    ELSE LET n == Len(list)
         IN  (list[n].Name :> list[n].Variables)
                 @@ BuildResult(SubSeq(list, 1, n - 1))

RemainingNone(keys, name) == {}

\* The keys a range over a map has still to visit after name.
Remaining(keys, name) == keys \ {name}

\* ------------------------------------------------------------------------
\* Inputs.

Ups1 == <<"u", "p", "s", "1">>
Ups2 == <<"u", "p", "s", "2">>
DeviceNames == {Ups1, Ups2}

User == <<"u", "s", "e", "r">>
Secret == <<"p", "w">>

OL == <<"O", "L">>
OBLB == <<"O", "B", " ", "L", "B">>

Var(name, value) == [Name |-> name, Value |-> value]

VarsOnline ==
    << Var("ups.status", Str(OL)),
       Var("battery.runtime", Int64(Int64Of(120))),
       Var("device.serial", Str(<<"A", "1">>)),
       Var("input.voltage", Float64(<<"2", "3", "0", ".", "5">>)) >>

VarsOnBattery ==
    << Var("ups.status", Str(OBLB)),
       Var("battery.runtime", Str(<<"1", "2", "0">>)) >>

VarsBare == << Var("ups.status", Str(OL)) >>

BasicVarLists == {VarsOnline, VarsOnBattery, VarsBare}

SeqsUpTo(S, n) == UNION {[1..k -> S] : k \in 0..n}

\* The devices of the server in the polling specifications.
BasicDevices == [Name : DeviceNames, Variables : BasicVarLists]

Goroutines == {1, 2}

\* ------------------------------------------------------------------------
\* State.

VARIABLES
    u,          \* the collector: Username, Password, batteryRuntimeTypeWarningIssued
    log,        \* u.Log: the warnings written, each with the cycle that wrote it
    server,     \* the devices the NUT server may report: a list call is
                \* answered with any list of up to MaxDevices of them
    cycles,     \* Gather calls made so far
    pc,         \* per Gather call: its position
    calls,      \* per Gather call: the protocol client calls made, with outcome
    deferred,   \* per Gather call: the deferred calls of fetchVariables
    err,        \* per Gather call: the error of fetchVariables, then of Gather
    upsList,    \* per Gather call: what client.GetUPSList returned
    result,     \* per Gather call: the map fetchVariables returns
    todo,       \* per Gather call: keys the range has still to visit
    cur,        \* per Gather call: the device gatherUps is in, after the latch test
    acc,        \* per Gather call: the records given to acc.AddFields
    first       \* the first record emitted: device name, variables, record

vars == <<u, log, server, cycles, pc, calls, deferred, err, upsList, result,
          todo, cur, acc, first>>

NoError == "<nil>"
Warning == "'battery.runtime' type is not int64"

InitCall ==
    /\ pc = [g \in Goroutines |-> "idle"]
    /\ calls = [g \in Goroutines |-> <<>>]
    /\ deferred = [g \in Goroutines |-> <<>>]
    /\ err = [g \in Goroutines |-> NoError]
    /\ upsList = [g \in Goroutines |-> <<>>]
    /\ result = [g \in Goroutines |-> NoResult]
    /\ todo = [g \in Goroutines |-> {}]
    /\ cur = [g \in Goroutines |-> <<>>]
    /\ acc = [g \in Goroutines |-> <<>>]

Init ==
    /\ u \in [Username : {<<>>, User}, Password : {<<>>, Secret},
              batteryRuntimeTypeWarningIssued : {FALSE}]
    /\ log = <<>>
    /\ server = BasicDevices
    /\ cycles = 0
    /\ first = <<>>
    /\ InitCall

\* The scheduler calls u.Gather(acc) with a fresh accumulator.
Gather(g) ==
    /\ pc[g] \in {"idle", "done"}
    /\ cycles < MaxCycles
    /\ cycles' = cycles + 1
    /\ pc' = [pc EXCEPT ![g] = "connect"]
    /\ calls' = [calls EXCEPT ![g] = <<>>]
    /\ deferred' = [deferred EXCEPT ![g] = <<>>]
    /\ err' = [err EXCEPT ![g] = NoError]
    /\ upsList' = [upsList EXCEPT ![g] = <<>>]
    /\ result' = [result EXCEPT ![g] = NoResult]
    /\ todo' = [todo EXCEPT ![g] = {}]
    /\ cur' = [cur EXCEPT ![g] = <<>>]
    /\ acc' = [acc EXCEPT ![g] = <<>>]
    /\ UNCHANGED <<u, log, server, first>>

Call(op, ok) == [op |-> op, ok |-> ok]

\* nut.Connect
Connect(g) ==
    /\ pc[g] = "connect"
    /\ \E ok \in BOOLEAN :
        /\ calls' = [calls EXCEPT ![g] = Append(@, Call("Connect", ok))]
        /\ IF ok
           THEN /\ pc' = [pc EXCEPT ![g] =
                            IF HasCredentials(u) THEN "auth" ELSE "getupslist"]
                /\ err' = err
           ELSE /\ pc' = [pc EXCEPT ![g] = "return"]
                /\ err' = [err EXCEPT ![g] = WrapError("Connect")]
    /\ UNCHANGED <<u, log, server, cycles, deferred, upsList, result, todo,
                   cur, acc, first>>

\* client.Authenticate
Authenticate(g) ==
    /\ pc[g] = "auth"
    /\ \E ok \in BOOLEAN :
        /\ calls' = [calls EXCEPT ![g] = Append(@, Call("Authenticate", ok))]
        /\ IF ok
           THEN /\ pc' = [pc EXCEPT ![g] = "getupslist"]
                /\ err' = err
           ELSE /\ pc' = [pc EXCEPT ![g] = "return"]
                /\ err' = [err EXCEPT ![g] = WrapError("Authenticate")]
    /\ UNCHANGED <<u, log, server, cycles, deferred, upsList, result, todo,
                   cur, acc, first>>

\* client.GetUPSList, the defer of client.Disconnect and the result map.
GetUPSList(g) ==
    /\ pc[g] = "getupslist"
    /\ \/ \E list \in SeqsUpTo(server, MaxDevices) :
            /\ calls' = [calls EXCEPT ![g] = Append(@, Call("GetUPSList", TRUE))]
            /\ upsList' = [upsList EXCEPT ![g] = list]
            /\ deferred' = [deferred EXCEPT ![g] = Append(@, "Disconnect")]
            /\ result' = [result EXCEPT ![g] = BuildResult(list)]
            /\ err' = err
       \/ /\ calls' = [calls EXCEPT ![g] = Append(@, Call("GetUPSList", FALSE))]
          /\ err' = [err EXCEPT ![g] = WrapError("GetUPSList")]
          /\ UNCHANGED <<upsList, deferred, result>>
    /\ pc' = [pc EXCEPT ![g] = "return"]
    /\ UNCHANGED <<u, log, server, cycles, todo, cur, acc, first>>

\* fetchVariables returns: its deferred calls run; Gather returns the error
\* or starts to range over the map.
FetchReturn(g) ==
    /\ pc[g] = "return"
    /\ calls' = [calls EXCEPT ![g] =
                    @ \o [i \in 1..Len(deferred[g]) |->
                            Call(deferred[g][Len(deferred[g]) + 1 - i], TRUE)]]
    /\ deferred' = [deferred EXCEPT ![g] = <<>>]
    /\ IF err[g] = NoError
       THEN /\ pc' = [pc EXCEPT ![g] = "range"]
            /\ todo' = [todo EXCEPT ![g] = DOMAIN result[g]]
       ELSE /\ pc' = [pc EXCEPT ![g] = "done"]
            /\ todo' = todo
    /\ UNCHANGED <<u, log, server, cycles, err, upsList, result, cur, acc, first>>

\* acc.AddFields("upsd", fields, tags)
AddFields(g, name) ==
    LET variables == result[g][name]
        record == gatherUps(name, variables, u.batteryRuntimeTypeWarningIssued)
    IN  /\ acc' = [acc EXCEPT ![g] = Append(@, record)]
        /\ first' = IF first = <<>>
                    THEN << [name |-> name, variables |-> variables,
                             record |-> record, cycle |-> cycles] >>
                    ELSE first

\* One iteration of the range in Gather, up to the test of the latch in
\* gatherUps; the iteration ends here when no warning is due.  The order of a
\* range over a map is not specified: any remaining key may come next.
RangeNext(g) ==
    /\ pc[g] = "range"
    /\ \E name \in todo[g] :
        /\ todo' = [todo EXCEPT ![g] = Remaining(todo[g], name)]
        /\ IF NeedsWarning(RuntimeOk(result[g][name]),
                           u.batteryRuntimeTypeWarningIssued)
           THEN /\ pc' = [pc EXCEPT ![g] = "warn"]
                /\ cur' = [cur EXCEPT ![g] = name]
                /\ UNCHANGED <<acc, first>>
           ELSE /\ AddFields(g, name)
                /\ UNCHANGED <<pc, cur>>
    /\ UNCHANGED <<u, log, server, cycles, calls, deferred, err, upsList, result>>

\* The warning, the write of the latch and the rest of gatherUps.
Warn(g) ==
    /\ pc[g] = "warn"
    /\ log' = Append(log, [msg |-> Warning, cycle |-> cycles])
    /\ u' = [u EXCEPT !.batteryRuntimeTypeWarningIssued = TRUE]
    /\ AddFields(g, cur[g])
    /\ pc' = [pc EXCEPT ![g] = "range"]
    /\ cur' = [cur EXCEPT ![g] = <<>>]
    /\ UNCHANGED <<server, cycles, calls, deferred, err, upsList, result, todo>>

\* The range is over: Gather returns nil.
GatherReturn(g) ==
    /\ pc[g] = "range"
    /\ todo[g] = {}
    /\ pc' = [pc EXCEPT ![g] = "done"]
    /\ UNCHANGED <<u, log, server, cycles, calls, deferred, err, upsList,
                   result, todo, cur, acc, first>>

Step(g) ==
    \/ Gather(g)
    \/ Connect(g)
    \/ Authenticate(g)
    \/ GetUPSList(g)
    \/ FetchReturn(g)
    \/ RangeNext(g)
    \/ Warn(g)
    \/ GatherReturn(g)

\* Sequential polling: the scheduler makes one Gather call at a time.
Next == Step(1)

Spec == Init /\ [][Next]_vars

\* Two Gather calls on the same collector may overlap.
NextConc == \E g \in Goroutines : Step(g)

\* The overlapping polls are of a server whose devices all have one name.
InitConc ==
    /\ u \in [Username : {<<>>, User}, Password : {<<>>, Secret},
              batteryRuntimeTypeWarningIssued : {FALSE}]
    /\ log = <<>>
    /\ server = {d \in BasicDevices : d.Name = Ups1}
    /\ cycles = 0
    /\ first = <<>>
    /\ InitCall

SpecConc == InitConc /\ [][NextConc]_vars

\* ------------------------------------------------------------------------
\* The last poll of a server with one device, whose status string or
\* battery.runtime is drawn from the values the functions are to be checked on.

RECURSIVE Concat(_)
Concat(pieces) ==
    IF pieces = <<>> THEN <<>> ELSE Head(pieces) \o Concat(Tail(pieces))

Pieces ==
    {StatusTable[i].token : i \in 1..Len(StatusTable)}
        \cup {<<" ">>, <<"\t">>, <<"X">>}

StatusStrings == {Concat(p) : p \in SeqsUpTo(Pieces, MaxPieces)}

MaxInt64 == [i \in 1..Int64Bytes |-> IF i = Int64Bytes THEN 127 ELSE 255]
MinInt64 == [i \in 1..Int64Bytes |-> IF i = Int64Bytes THEN 128 ELSE 0]
\* 9223372036 is the largest n with n * 1000000000 below 2^63.
LargestExact == Int64HiLo(2, 633437444)
SmallestWrapped == Int64HiLo(2, 633437445)
Seconds120 == Int64Of(120)

RuntimeValues ==
    {Int64(b) : b \in {Zeros(Int64Bytes), Int64Of(1), Seconds120,
                       MinusOne(Int64Bytes), LargestExact, SmallestWrapped,
                       Negate(LargestExact), Negate(SmallestWrapped),
                       MaxInt64, MinInt64}}
        \cup {Str(<<"1", "2", "0">>), Float64(<<"1", "2", "0", ".", "5">>)}

DeviceVarLists ==
    {<<Var("ups.status", Str(s)), Var("battery.runtime", Int64(Seconds120))>> :
        s \in StatusStrings}
    \cup {<<Var("battery.runtime", r), Var("device.serial", Int64(Int64Of(12345)))>> :
            r \in RuntimeValues}
    \cup {<<>>,
          <<Var("ups.status", Str(<<"O", "L">>)), Var("ups.status", Str(<<"O", "B">>))>>}

InitDevice ==
    /\ u = [Username |-> User, Password |-> Secret,
            batteryRuntimeTypeWarningIssued |-> FALSE]
    /\ log = <<>>
    /\ server \in {{[Name |-> Ups1, Variables |-> v]} : v \in DeviceVarLists}
    /\ cycles = MaxCycles - 1
    /\ first = <<>>
    /\ InitCall

NextDevice == Step(1)

SpecDevice == InitDevice /\ [][NextDevice]_vars

\* ------------------------------------------------------------------------
\* Properties.

Done(g) == pc[g] = "done"
Succeeded(g) == Done(g) /\ err[g] = NoError

CountCalls(g, op) == Cardinality({i \in 1..Len(calls[g]) : calls[g][i].op = op})
Connected(g) == \E i \in 1..Len(calls[g]) : calls[g][i] = Call("Connect", TRUE)

\* The device names of the list client.GetUPSList returned.
ListedNames(g) == {upsList[g][i].Name : i \in 1..Len(upsList[g])}

\* The variables of the device a record of the current cycle was built from.
VariablesOf(g, record) == result[g][record.tags["ups_name"]]

\* C1: in a cycle whose connect succeeded Disconnect has been called exactly
\* once when the cycle ends, whichever way it ends, and never in a cycle whose
\* connect failed.
C1_DisconnectOncePerConnect ==
    \A g \in Goroutines :
        Done(g) =>
            CountCalls(g, "Disconnect") = (IF Connected(g) THEN 1 ELSE 0)

\* The errors of a finished cycle, with listLabel the annotation of a failed
\* device-list call: a failed call is the last call of the cycle, the error
\* carries its annotation and nothing was emitted; with no failed call the
\* cycle returns no error.
CycleErrors(listLabel) ==
    \A g \in Goroutines :
        Done(g) =>
            LET failed == {i \in 1..Len(calls[g]) : ~calls[g][i].ok}
            IN  IF failed = {}
                THEN /\ err[g] = NoError
                     /\ CountCalls(g, "Connect") = 1
                     /\ CountCalls(g, "GetUPSList") = 1
                ELSE /\ failed = {Len(calls[g])}
                     /\ acc[g] = <<>>
                     /\ LET op == calls[g][Len(calls[g])].op
                        IN  \/ op = "Connect" /\ err[g] = "connect"
                            \/ op = "Authenticate" /\ err[g] = "auth"
                            \/ op = "GetUPSList" /\ err[g] = listLabel

\* C2 as claimed: a failed connect, authenticate or device-list call ends the
\* cycle with the error annotated connect, auth or getlist, no later call and
\* no record; otherwise no error.
C2_ErrorsAsClaimed == CycleErrors("getlist")

\* C2, amended: the same, with the annotation of a failed device-list call
\* being getupslist.
C2_ErrorsAnnotated == CycleErrors("getupslist")

C2_ListFailed ==
    /\ Done(1)
    /\ calls[1] = <<Call("Connect", TRUE), Call("GetUPSList", FALSE)>>
    /\ err[1] = "getupslist"
    /\ acc[1] = <<>>

\* The eight status tokens of the claim, the i-th for bit i - 1, and their tags.
ClaimedTokens ==
    << <<"C", "A", "L">>, <<"T", "R", "I", "M">>, <<"B", "O", "O", "S", "T">>,
       <<"O", "L">>, <<"O", "B">>, <<"O", "V", "E", "R">>, <<"L", "B">>,
       <<"R", "B">> >>
ClaimedTags ==
    << "status_CAL", "status_TRIM", "status_BOOST", "status_OL", "status_OB",
       "status_OVER", "status_LB", "status_RB" >>

\* token occurs in s between whitespace or the ends of s.
OccursAsToken(token, s) ==
    \E i \in 1..Len(s) :
        /\ i + Len(token) - 1 <= Len(s)
        /\ SubSeq(s, i, i + Len(token) - 1) = token
        /\ i = 1 \/ IsSpace(s[i - 1])
        /\ i + Len(token) - 1 = Len(s) \/ IsSpace(s[i + Len(token)])

\* The status string of a device: no text when ups.status is absent.
StatusText(variables) ==
    LET x == Lookup(MetricsOf(variables), "ups.status")
    IN  IF x.t = "string" THEN x.v ELSE <<>>

BitSet(mask, b) == (mask \div (2 ^ b)) % 2 = 1

\* C3: in every record bit i - 1 of status_flags is set exactly when the
\* i-th token occurs as a whole token of ups.status, the tag status_<TOKEN>
\* is "true" for exactly those tokens, and there is no other tag besides
\* serial, ups_name and model; "OL" gives 8, "OB LB" 80, empty or absent 0.
C3_StatusDecoded ==
    \A g \in Goroutines : \A k \in 1..Len(acc[g]) :
        LET record == acc[g][k]
            s == StatusText(VariablesOf(g, record))
            present == {i \in 1..Len(ClaimedTokens) :
                            OccursAsToken(ClaimedTokens[i], s)}
        IN  /\ \A i \in 1..Len(ClaimedTokens) :
                    BitSet(record.fields["status_flags"], i - 1) <=> i \in present
            /\ record.fields["status_flags"] < 2 ^ Len(ClaimedTokens)
            /\ DOMAIN record.tags =
                    {"serial", "ups_name", "model"}
                        \cup {ClaimedTags[i] : i \in present}
            /\ \A i \in present : record.tags[ClaimedTags[i]] = True
            /\ s = OL => record.fields["status_flags"] = 8
            /\ s = OBLB => record.fields["status_flags"] = 80
            /\ s = <<>> => record.fields["status_flags"] = 0

C3_OnBatteryLow ==
    /\ Len(acc[1]) = 1
    /\ StatusText(VariablesOf(1, acc[1][1])) = OBLB
    /\ acc[1][1].fields["status_flags"] = 80
    /\ DOMAIN acc[1][1].tags =
            {"serial", "ups_name", "model", "status_OB", "status_LB"}

\* C4: over sequential cycles at most one warning is ever logged, the latch
\* is set exactly when it has been logged, and once a device whose
\* battery.runtime is not an int64 has been processed it has been logged.
C4_WarnedOnce ==
    /\ Len(log) <= 1
    /\ u.batteryRuntimeTypeWarningIssued <=> Len(log) = 1
    /\ \A g \in Goroutines : \A k \in 1..Len(acc[g]) :
            ~RuntimeOk(VariablesOf(g, acc[g][k])) => Len(log) = 1

C4_SilentLaterCycle ==
    /\ Done(1)
    /\ cycles = 2
    /\ \E k \in 1..Len(acc[1]) : ~RuntimeOk(VariablesOf(1, acc[1][k]))
    /\ Len(log) = 1
    /\ log[1].cycle = 1

\* C5 as claimed: a cycle whose device-list call succeeded emits as many
\* records as the list has entries.
C5_RecordPerEntry ==
    \A g \in Goroutines : Succeeded(g) => Len(acc[g]) = Len(upsList[g])

\* C5, amended: it emits as many records as the list has distinct names, and
\* the record of a name is built from the last entry of that name.
C5_RecordPerName ==
    \A g \in Goroutines :
        Succeeded(g) =>
            /\ Len(acc[g]) = Cardinality(ListedNames(g))
            /\ \A n \in ListedNames(g) :
                LET last == CHOOSE i \in 1..Len(upsList[g]) :
                                /\ upsList[g][i].Name = n
                                /\ \A j \in (i + 1)..Len(upsList[g]) :
                                        upsList[g][j].Name # n
                IN  \E k \in 1..Len(acc[g]) :
                        /\ acc[g][k].tags["ups_name"] = n
                        /\ acc[g][k].fields["ups.status"] =
                              Lookup(MetricsOf(upsList[g][last].Variables), "ups.status")
                        /\ acc[g][k].tags["serial"] =
                              Sprintf(Lookup(MetricsOf(upsList[g][last].Variables),
                                             "device.serial"))

C5_SameNameTwice ==
    /\ Succeeded(1)
    /\ Len(upsList[1]) = 2
    /\ upsList[1][1].Name = upsList[1][2].Name
    /\ upsList[1][1].Variables # upsList[1][2].Variables
    /\ Len(acc[1]) = 1

\* C6: Authenticate is called only after a successful connect with both
\* Username and Password non-empty, it is called in every such cycle, and
\* with either of them empty the call after Connect is GetUPSList.
C6_AuthenticateIffCredentials ==
    \A g \in Goroutines :
        LET both == u.Username # <<>> /\ u.Password # <<>>
        IN  /\ CountCalls(g, "Authenticate") > 0 => Connected(g) /\ both
            /\ Connected(g) /\ both /\ pc[g] # "auth" =>
                    /\ Len(calls[g]) >= 2
                    /\ calls[g][2].op = "Authenticate"
            /\ Connected(g) /\ ~both /\ Len(calls[g]) >= 2 =>
                    calls[g][2].op = "GetUPSList"

C6_AnonymousPoll ==
    /\ Succeeded(1)
    /\ u.Username = User
    /\ u.Password = <<>>
    /\ calls[1][1] = Call("Connect", TRUE)
    /\ calls[1][2] = Call("GetUPSList", TRUE)

\* n * 1000000000 as an integer of sixteen bytes, wide enough for the product
\* of any int64 n.
ExactNanos(n) ==
    MulWrap(SignExtend(n, WideBytes), SignExtend(Int64Of(NanosPerSecond), WideBytes))

Runtime(g, record) == Lookup(MetricsOf(VariablesOf(g, record)), "battery.runtime")

IsExactNanos(ns, n) == SignExtend(ns, WideBytes) = ExactNanos(n)
IsWrappedNanos(ns, n) == ns = SubSeq(ExactNanos(n), 1, Int64Bytes)

\* Every record has an int64 field time_left_ns; a finished cycle none of
\* whose client calls failed returned no error and emitted the record of every
\* listed device name, whatever the battery.runtime values; and with
\* battery.runtime an int64 n the field is the exact or the wrapped product,
\* and is 0 otherwise.
TimeLeft(exact) ==
    \A g \in Goroutines :
        /\ Done(g) /\ (\A i \in 1..Len(calls[g]) : calls[g][i].ok) =>
                /\ err[g] = NoError
                /\ {acc[g][k].tags["ups_name"] : k \in 1..Len(acc[g])}
                        = ListedNames(g)
        /\ \A k \in 1..Len(acc[g]) :
            LET record == acc[g][k]
                x == Runtime(g, record)
            IN  /\ "time_left_ns" \in DOMAIN record.fields
                /\ record.fields["time_left_ns"].t = "int64"
                /\ IF x.t = "int64"
                   THEN IF exact
                        THEN IsExactNanos(record.fields["time_left_ns"].v, x.v)
                        ELSE IsWrappedNanos(record.fields["time_left_ns"].v, x.v)
                   ELSE record.fields["time_left_ns"].v = Zeros(Int64Bytes)

\* C7 as claimed: time_left_ns is n * 1000000000 for every int64 n, and 0 when
\* battery.runtime is absent or of another type, the record being emitted.
C7_TimeLeftExact == TimeLeft(TRUE)

\* C7, amended: time_left_ns is n * 1000000000 reduced modulo 2^64 to an
\* int64 (the exact product whenever that is an int64), and 0 when
\* battery.runtime is absent or of another type, the record being emitted.
C7_TimeLeftWrapped == TimeLeft(FALSE)

C7_TwoMinutes ==
    /\ Succeeded(1)
    /\ Len(acc[1]) = 1
    /\ Runtime(1, acc[1][1]) = Int64(Seconds120)
    /\ FormatInt(acc[1][1].fields["time_left_ns"].v) =
            <<"1", "2", "0", "0", "0", "0", "0", "0", "0", "0", "0", "0">>

\* C8: with overlapping cycles on one collector the warning is still logged
\* at most once.
C8_WarnedOnceConcurrently == Len(log) <= 1

\* C9 as claimed: in a successful cycle, of two devices of different names the
\* one earlier in the device list has its record emitted earlier.
C9_ListOrder ==
    \A g \in Goroutines :
        Succeeded(g) =>
            \A i, j \in 1..Len(upsList[g]) :
                i < j /\ upsList[g][i].Name # upsList[g][j].Name =>
                    \E p, q \in 1..Len(acc[g]) :
                        /\ p < q
                        /\ acc[g][p].tags["ups_name"] = upsList[g][i].Name
                        /\ acc[g][q].tags["ups_name"] = upsList[g][j].Name

\* C9, amended: in a successful cycle every listed device name has exactly
\* one record and every record is of a listed name, in whatever order.
C9_EachOnceAnyOrder ==
    \A g \in Goroutines :
        Succeeded(g) =>
            /\ \A n \in ListedNames(g) :
                Cardinality({k \in 1..Len(acc[g]) :
                                acc[g][k].tags["ups_name"] = n}) = 1
            /\ \A k \in 1..Len(acc[g]) :
                acc[g][k].tags["ups_name"] \in ListedNames(g)

C9_ReversedOrder ==
    /\ Succeeded(1)
    /\ Len(upsList[1]) = 2
    /\ Len(acc[1]) = 2
    /\ acc[1][1].tags["ups_name"] = upsList[1][2].Name
    /\ acc[1][2].tags["ups_name"] = upsList[1][1].Name

\* C10: a record emitted for the device name and variables of the first
\* record ever emitted equals that first record, whatever was polled in
\* between and whether or not the latch has been set since.
C10_SameSnapshotSameRecord ==
    \A g \in Goroutines : \A k \in 1..Len(acc[g]) :
        /\ first # <<>>
        /\ acc[g][k].tags["ups_name"] = first[1].name
        /\ VariablesOf(g, acc[g][k]) = first[1].variables
        => acc[g][k] = first[1].record

C10_SameSnapshotLater ==
    /\ Done(1)
    /\ cycles = 2
    /\ first # <<>>
    /\ first[1].cycle = 1
    /\ log # <<>>
    /\ log[1].cycle = 1
    /\ Len(acc[1]) = 2
    /\ acc[1][2].tags["ups_name"] = first[1].name
    /\ VariablesOf(1, acc[1][2]) = first[1].variables
    /\ acc[1][2] = first[1].record
====
